---- MODULE Spec2Model ----
(***************************************************************************)
(* Model of PortScanner (src/source/scanner.py): scan_range dispatches one *)
(* scan_port task per port on a ThreadPoolExecutor of `threads` workers,   *)
(* consumes the futures in completion order, keeps the open ports and      *)
(* returns them sorted by port number.                                     *)
(***************************************************************************)
EXTENDS Integers, Sequences, FiniteSets, TLC

(***************************************************************************)
(* Bounds of the model.                                                    *)
(***************************************************************************)
MaxPorts == 2
MaxThreads == 2
MaxTotal == 41
MaxAgeDays == 31

(***************************************************************************)
(* Error codes named in scan_port's comments.                              *)
(***************************************************************************)
ECONNREFUSED == 111
ETIMEDOUT == 110
EHOSTUNREACH == 113
WSAEACCES == 10013

(***************************************************************************)
(* PortService.CACHE_EXPIRY_DAYS (src/source/port_service.py).             *)
(***************************************************************************)
CACHE_EXPIRY_DAYS == 30

VARIABLES
    target,     \* self.target: a name that resolves or one that does not
    ports,      \* self.ports, the set of ports of the range
    threads,    \* self.threads
    timeout,    \* self.timeout
    pc,         \* position of the thread running scan_range
    raising,    \* exception travelling out of scan_range ("none" when none)
    queue,      \* work queue of the executor (FIFO of submitted ports)
    task,       \* task[p]: position of the scan_port task of port p
    sock,       \* sock[p]: socket of the task of port p: none, open, closed
    code,       \* code[p]: what connect_ex did (local to scan_port)
    bev,        \* bev[p]: what send/recv did in grab_banner (local to it)
    ret,        \* ret[p]: value scan_port is about to return
    fut,        \* fut[p]: the future of port p: pending, a result, an exception
    yielded,    \* the ports whose futures as_completed has yielded, in order
    completed,  \* local counter `completed` of scan_range
    progress,   \* the progress lines printed so far
    results,    \* self._results
    prev,       \* the list an earlier scan_range call returned to the caller
    auto_update,\* PortService: self.auto_update
    cache,      \* PortService: the file named by self.cache_file
    ports_db,   \* PortService: the keys of self.ports_db
    init_pc,    \* PortService: position in __init__ / _initialize_ports_db
    init_exc    \* PortService: exception leaving __init__ ("none" when none)

vars == <<target, ports, threads, timeout, pc, raising, queue, task, sock, code, bev,
          ret, fut, yielded, completed, progress, results, prev, auto_update,
          cache, ports_db, init_pc, init_exc>>

AllPorts == 1..MaxPorts

(***************************************************************************)
(* Values.                                                                 *)
(***************************************************************************)
NoCode == [raised |-> "unset", code |-> 0]
Returned(c) == [raised |-> "none", code |-> c]
Raised(e) == [raised |-> e, code |-> 0]

\* What sock.connect_ex((ip, port)) can do: return 0, return an error code,
\* or raise.
ConnectOutcomes ==
    {Returned(c) : c \in {0, ECONNREFUSED, ETIMEDOUT, EHOSTUNREACH, WSAEACCES}}
    \cup {Raised(e) : e \in {"timeout", "PermissionError", "OSError"}}

Pending == [kind |-> "pending", port |-> 0, status |-> "", service |-> "",
            banner |-> <<>>]
Result(p, st, sv, b) == [kind |-> "result", port |-> p, status |-> st,
                         service |-> sv, banner |-> b]
Exc(p, e) == [kind |-> "exception", port |-> p, status |-> e, service |-> "",
              banner |-> <<>>]

(***************************************************************************)
(* grab_banner: bytes are tokens; xFF is a byte that is not valid UTF-8.   *)
(***************************************************************************)
Whitespace == {"SP", "CR", "LF"}
InvalidBytes == {"xFF"}

\* bytes.decode("utf-8", errors="ignore"): invalid bytes are dropped
Decode(bytes) == SelectSeq(bytes, LAMBDA b : b \notin InvalidBytes)

RECURSIVE LStrip(_)
LStrip(s) == IF s # <<>> /\ Head(s) \in Whitespace THEN LStrip(Tail(s)) ELSE s

RECURSIVE RStrip(_)
RStrip(s) ==
    IF s # <<>> /\ s[Len(s)] \in Whitespace
    THEN RStrip(SubSeq(s, 1, Len(s) - 1))
    ELSE s

\* str.strip()
Strip(s) == RStrip(LStrip(s))

\* What the peer does during grab_banner: send fails, recv times out, or recv
\* returns bytes.
RecvBytes == { <<>>, <<"O", "K", "CR", "LF">>, <<"SP", "xFF", "O", "K">> }
BannerEvents ==
    {[ev |-> e, bytes |-> <<>>] : e \in {"sendfail", "timeout"}}
    \cup {[ev |-> "data", bytes |-> b] : b \in RecvBytes}

\* grab_banner has not run.
NoEvent == [ev |-> "none", bytes |-> <<>>]

grab_banner(ev) ==
    IF ev.ev = "data" THEN Strip(Decode(ev.bytes)) ELSE <<>>

(***************************************************************************)
(* scan_port's classification of a failed connect (lines 137-190).         *)
(***************************************************************************)
Classify(p, c) ==
    IF c.raised = "none" THEN Result(p, "closed", "N/A", <<>>)
    ELSE IF c.raised = "timeout" THEN Result(p, "filtered", "N/A", <<>>)
    ELSE IF c.raised = "PermissionError"
         THEN Result(p, "error", "Permission Denied", <<>>)
    ELSE Result(p, "error", "N/A", <<"Erro: ", c.raised>>)

(***************************************************************************)
(* list.sort(key=lambda x: x["port"]): a stable sort by port number.       *)
(***************************************************************************)
RECURSIVE Insert(_, _)
Insert(s, r) ==
    IF s = <<>> THEN <<r>>
    ELSE IF s[Len(s)].port <= r.port THEN Append(s, r)
    ELSE Append(Insert(SubSeq(s, 1, Len(s) - 1), r), s[Len(s)])

\* A scan_range that returns self._results without sorting it.
Unsorted(s) == s

RECURSIVE SortByPort(_)
SortByPort(s) ==
    IF s = <<>> THEN <<>>
    ELSE Insert(SortByPort(SubSeq(s, 1, Len(s) - 1)), s[Len(s)])

(***************************************************************************)
(* scan_range, lines 320-322: the progress line.  It is printed when the   *)
(* counter is a multiple of 20 or equals the total; the percentage         *)
(* (completed / total) * 100 is formatted with one decimal, modelled in    *)
(* tenths of a percent rounded half to even.                               *)
(***************************************************************************)
ProgressEvery == 20

\* A cadence that forgets the final completion.
ProgressDueCadenceOnly(c, t) == c % ProgressEvery = 0

ProgressDue(c, t) == c % ProgressEvery = 0 \/ c = t

Percent(c, t) ==
    LET q == (c * 1000) \div t
        r == (c * 1000) % t
    IN  IF 2 * r > t \/ (2 * r = t /\ q % 2 = 1) THEN q + 1 ELSE q

Report(log, c, t) ==
    IF ProgressDue(c, t)
    THEN Append(log, [at |-> c, percent |-> Percent(c, t)])
    ELSE log

(***************************************************************************)
(* The caller of scan_range (executar_teste_scan, line 442) keeps the list *)
(* the call returned.  No call has returned before the first one.          *)
(***************************************************************************)
NoList == [held |-> FALSE, list |-> <<>>]
Held(l) == [held |-> TRUE, list |-> l]

(***************************************************************************)
(* The cache file of PortService: absent, or a file of some age in days    *)
(* holding either text that is not a JSON object or a JSON object whose    *)
(* "ports" member has the given keys; stat tells whether os.path.getmtime  *)
(* succeeds on it.                                                         *)
(***************************************************************************)
NoFile ==
    [exists |-> FALSE, stat |-> FALSE, age |-> 0, json |-> FALSE, keys |-> {}]
File(st, a, j, ks) ==
    [exists |-> TRUE, stat |-> st, age |-> a, json |-> j, keys |-> ks]

\* No PortService is being constructed.
ServiceUnused ==
    /\ auto_update = TRUE
    /\ cache = NoFile
    /\ ports_db = {}
    /\ init_pc = "none"
    /\ init_exc = "none"

(***************************************************************************)
(* Initial state: PortScanner(target, ports, timeout, threads) is being    *)
(* constructed; lines 48-55 have stored the arguments, none validated.     *)
(***************************************************************************)
Init ==
    /\ target \in {"resolvable", "unresolvable"}
    /\ ports \in {1..n : n \in 0..MaxPorts}
    /\ threads \in 0..MaxThreads
    /\ timeout \in {-1, 1}
    /\ pc = "new"
    /\ raising = "none"
    /\ queue = <<>>
    /\ task = [p \in AllPorts |-> "unsubmitted"]
    /\ sock = [p \in AllPorts |-> "none"]
    /\ code = [p \in AllPorts |-> NoCode]
    /\ bev = [p \in AllPorts |-> NoEvent]
    /\ ret = [p \in AllPorts |-> Pending]
    /\ fut = [p \in AllPorts |-> Pending]
    /\ yielded = <<>>
    /\ completed = 0
    /\ progress = <<>>
    /\ results = <<>>
    /\ prev = NoList
    /\ ServiceUnused

Config == <<target, ports, threads, timeout>>

\* The PortService, which no step of a scan reads or writes.
Service == <<auto_update, cache, ports_db, init_pc, init_exc>>

\* What no step inside one scan_range call touches.
Apart == <<prev, Service>>

\* Tasks a worker thread is executing.
Running == {p \in AllPorts : task[p] \in {"run", "sock", "tset", "conn", "fin"}}

(***************************************************************************)
(* __init__, lines 57-70: socket.gethostbyname(target).  When the name     *)
(* does not resolve, gaierror becomes ValueError and no scanner exists.    *)
(***************************************************************************)
\* A constructor that ignores the resolution error.
ConstructUnresolved ==
    /\ pc = "new"
    /\ pc' = "constructed"
    /\ UNCHANGED <<Config, Apart, raising, queue, task, sock, code, bev, ret, fut,
                   yielded, completed, progress, results>>

Construct ==
    /\ pc = "new"
    /\ IF target = "resolvable"
       THEN pc' = "constructed" /\ raising' = raising
       ELSE pc' = "unresolved" /\ raising' = "ValueError"
    /\ UNCHANGED <<Config, Apart, queue, task, sock, code, bev, ret, fut, yielded,
                   completed, progress, results>>

\* A scan_range that keeps self._results from the call before.
EnterScanRangeKeeping ==
    /\ pc = "constructed"
    /\ results' = results
    /\ IF threads <= 0
       THEN pc' = "raised" /\ raising' = "ValueError"
       ELSE pc' = "submit" /\ raising' = raising
    /\ UNCHANGED <<Config, Apart, queue, task, sock, code, bev, ret, fut,
                   yielded, completed, progress>>

\* A scan_range that builds the executor without ThreadPoolExecutor's check of
\* max_workers.
EnterScanRangeUnchecked ==
    /\ pc = "constructed"
    /\ results' = <<>>
    /\ pc' = "submit"
    /\ UNCHANGED <<Config, Apart, raising, queue, task, sock, code, bev, ret, fut,
                   yielded, completed, progress>>

(***************************************************************************)
(* scan_range, lines 279-294: reset the results, create the executor.      *)
(* ThreadPoolExecutor raises ValueError when max_workers <= 0.             *)
(***************************************************************************)
EnterScanRange ==
    /\ pc = "constructed"
    /\ results' = <<>>
    /\ IF threads <= 0
       THEN pc' = "raised" /\ raising' = "ValueError"
       ELSE pc' = "submit" /\ raising' = raising
    /\ UNCHANGED <<Config, Apart, queue, task, sock, code, bev, ret, fut, yielded, completed, progress>>

\* The ports submitted so far.
Submitted == {p \in ports : task[p] # "unsubmitted"}

(***************************************************************************)
(* scan_range, lines 301-304: executor.submit(self.scan_port, port) for    *)
(* the ports of the range in order; the work item joins the FIFO queue.    *)
(***************************************************************************)
Submit(p) ==
    /\ pc = "submit"
    /\ p \in ports
    /\ task[p] = "unsubmitted"
    /\ \A q \in ports : q < p => task[q] # "unsubmitted"
    /\ task' = [task EXCEPT ![p] = "queued"]
    /\ queue' = Append(queue, p)
    /\ UNCHANGED <<Config, Apart, pc, raising, sock, code, bev, ret, fut, yielded,
                   completed, progress, results>>

(***************************************************************************)
(* scan_range, lines 306-312: every port is submitted; the counters are    *)
(* set and the loop over as_completed starts.                              *)
(***************************************************************************)
\* A scan_range that prints a first progress line before the loop, dividing
\* by the total.
BeginLoopReporting ==
    /\ pc = "submit"
    /\ Submitted = ports
    /\ completed' = 0
    /\ IF Cardinality(ports) = 0
       THEN /\ pc' = "exit"
            /\ raising' = "ZeroDivisionError"
            /\ progress' = progress
       ELSE /\ pc' = "loop"
            /\ raising' = raising
            /\ progress' = Append(progress, [at |-> 0, percent |-> 0])
    /\ UNCHANGED <<Config, Apart, queue, task, sock, code, bev, ret, fut, yielded,
                   results>>

BeginLoop ==
    /\ pc = "submit"
    /\ Submitted = ports
    /\ completed' = 0
    /\ pc' = "loop"
    /\ UNCHANGED <<Config, Apart, raising, queue, task, sock, code, bev, ret, fut,
                   yielded, progress, results>>

(***************************************************************************)
(* A worker thread of the pool takes the oldest work item.  The pool has   *)
(* at most max_workers = self.threads threads (line 294).                  *)
(***************************************************************************)
\* A pool that keeps one of its max_workers threads back.
WorkerTakeShort(p) ==
    /\ queue # <<>>
    /\ p = Head(queue)
    /\ Cardinality(Running) < threads - 1
    /\ task' = [task EXCEPT ![p] = "run"]
    /\ queue' = Tail(queue)
    /\ UNCHANGED <<Config, Apart, pc, raising, sock, code, bev, ret, fut,
                   yielded, completed, progress, results>>

\* A pool that starts a thread for every work item, whatever max_workers is.
WorkerTakeUnbounded(p) ==
    /\ queue # <<>>
    /\ p = Head(queue)
    /\ task' = [task EXCEPT ![p] = "run"]
    /\ queue' = Tail(queue)
    /\ UNCHANGED <<Config, Apart, pc, raising, sock, code, bev, ret, fut, yielded,
                   completed, progress, results>>

WorkerTake(p) ==
    /\ queue # <<>>
    /\ p = Head(queue)
    /\ Cardinality(Running) < threads
    /\ task' = [task EXCEPT ![p] = "run"]
    /\ queue' = Tail(queue)
    /\ UNCHANGED <<Config, Apart, pc, raising, sock, code, bev, ret, fut, yielded,
                   completed, progress, results>>

(***************************************************************************)
(* scan_port, line 106: socket.socket(...).  It is outside the try block:  *)
(* when no socket can be allocated the OSError leaves scan_port and        *)
(* becomes the exception of the future.                                    *)
(***************************************************************************)
ScanPortSocket(p) ==
    /\ task[p] = "run"
    /\ \E ok \in BOOLEAN :
          IF ok
          THEN /\ sock' = [sock EXCEPT ![p] = "open"]
               /\ task' = [task EXCEPT ![p] = "sock"]
               /\ fut' = fut
          ELSE /\ sock' = sock
               /\ task' = [task EXCEPT ![p] = "done"]
               /\ fut' = [fut EXCEPT ![p] = Exc(p, "OSError")]
    /\ UNCHANGED <<Config, Apart, pc, raising, queue, code, bev, ret, yielded, completed, progress,
                   results>>

(***************************************************************************)
(* scan_port, line 110: sock.settimeout(self.timeout), also outside the    *)
(* try block.  settimeout raises ValueError for a negative timeout; the    *)
(* finally clause does not cover it, so the socket stays open.             *)
(***************************************************************************)
ScanPortSetTimeout(p) ==
    /\ task[p] = "sock"
    /\ IF timeout < 0
       THEN /\ task' = [task EXCEPT ![p] = "done"]
            /\ fut' = [fut EXCEPT ![p] = Exc(p, "ValueError")]
       ELSE /\ task' = [task EXCEPT ![p] = "tset"]
            /\ fut' = fut
    /\ UNCHANGED <<Config, Apart, pc, raising, queue, sock, code, bev, ret, yielded,
                   completed, progress, results>>

(***************************************************************************)
(* scan_port, lines 121-190: connect_ex and the classification of its      *)
(* outcome.  On 0 the task goes on to grab_banner; otherwise the return    *)
(* value is computed and the finally clause is still to run.               *)
(***************************************************************************)
ScanPortConnect(p) ==
    /\ task[p] = "tset"
    /\ \E c \in ConnectOutcomes :
          /\ code' = [code EXCEPT ![p] = c]
          /\ IF c = Returned(0)
             THEN /\ task' = [task EXCEPT ![p] = "conn"]
                  /\ ret' = ret
             ELSE /\ task' = [task EXCEPT ![p] = "fin"]
                  /\ ret' = [ret EXCEPT ![p] = Classify(p, c)]
    /\ UNCHANGED <<Config, Apart, pc, raising, queue, sock, bev, fut, yielded,
                   completed, progress, results>>

(***************************************************************************)
(* scan_port, lines 128-135 with grab_banner, lines 226-248.               *)
(***************************************************************************)
\* A grab_banner without its except clauses: a send or recv failure reaches
\* the except clauses of scan_port.
ScanPortGrabBannerUncaught(p) ==
    /\ task[p] = "conn"
    /\ \E ev \in BannerEvents :
          /\ bev' = [bev EXCEPT ![p] = ev]
          /\ ret' = [ret EXCEPT ![p] =
                IF ev.ev = "timeout" THEN Classify(p, Raised("timeout"))
                ELSE IF ev.ev = "sendfail" THEN Classify(p, Raised("OSError"))
                ELSE Result(p, "open", "", grab_banner(ev))]
    /\ task' = [task EXCEPT ![p] = "fin"]
    /\ UNCHANGED <<Config, Apart, pc, raising, queue, sock, code, fut, yielded,
                   completed, progress, results>>

ScanPortGrabBanner(p) ==
    /\ task[p] = "conn"
    /\ \E ev \in BannerEvents :
          /\ bev' = [bev EXCEPT ![p] = ev]
          /\ ret' = [ret EXCEPT ![p] = Result(p, "open", "", grab_banner(ev))]
    /\ task' = [task EXCEPT ![p] = "fin"]
    /\ UNCHANGED <<Config, Apart, pc, raising, queue, sock, code, fut, yielded,
                   completed, progress, results>>

(***************************************************************************)
(* scan_port, lines 192-195: the finally clause closes the socket, then    *)
(* the value is returned and becomes the result of the future.             *)
(***************************************************************************)
\* A scan_port that records its own outcome in the session state from the
\* worker thread.
ScanPortFinallyRecords(p) ==
    /\ task[p] = "fin"
    /\ sock' = [sock EXCEPT ![p] = "closed"]
    /\ fut' = [fut EXCEPT ![p] = ret[p]]
    /\ ret' = [ret EXCEPT ![p] = Pending]
    /\ code' = [code EXCEPT ![p] = NoCode]
    /\ bev' = [bev EXCEPT ![p] = NoEvent]
    /\ task' = [task EXCEPT ![p] = "done"]
    /\ results' = IF ret[p].status = "open" THEN Append(results, ret[p])
                  ELSE results
    /\ UNCHANGED <<Config, Apart, pc, raising, queue, yielded, completed, progress>>

\* A finally clause that does not close the socket.
ScanPortFinallyNoClose(p) ==
    /\ task[p] = "fin"
    /\ fut' = [fut EXCEPT ![p] = ret[p]]
    /\ ret' = [ret EXCEPT ![p] = Pending]
    /\ code' = [code EXCEPT ![p] = NoCode]
    /\ bev' = [bev EXCEPT ![p] = NoEvent]
    /\ task' = [task EXCEPT ![p] = "done"]
    /\ UNCHANGED <<Config, Apart, pc, raising, queue, sock, yielded, completed, progress,
                   results>>

ScanPortFinally(p) ==
    /\ task[p] = "fin"
    /\ sock' = [sock EXCEPT ![p] = "closed"]
    /\ fut' = [fut EXCEPT ![p] = ret[p]]
    /\ ret' = [ret EXCEPT ![p] = Pending]
    /\ code' = [code EXCEPT ![p] = NoCode]
    /\ bev' = [bev EXCEPT ![p] = NoEvent]
    /\ task' = [task EXCEPT ![p] = "done"]
    /\ UNCHANGED <<Config, Apart, pc, raising, queue, yielded, completed, progress, results>>

\* The ports as_completed has yielded.
Yielded == {yielded[i] : i \in 1..Len(yielded)}

(***************************************************************************)
(* scan_range, lines 312-328: one iteration of the loop.  as_completed     *)
(* yields a finished future it has not yielded before; future.result()     *)
(* re-raises the exception of the task; otherwise the counter grows and an *)
(* open outcome is appended to self._results.                              *)
(***************************************************************************)
\* A loop that counts only the open outcomes.
ConsumeCountOpen(p) ==
    /\ pc = "loop"
    /\ p \in ports \ Yielded
    /\ fut[p].kind # "pending"
    /\ yielded' = Append(yielded, p)
    /\ IF fut[p].kind = "exception"
       THEN /\ raising' = fut[p].status
            /\ pc' = "exit"
            /\ UNCHANGED <<completed, progress, results>>
       ELSE /\ IF fut[p].status = "open"
               THEN /\ completed' = completed + 1
                    /\ progress' = Report(progress, completed + 1,
                                          Cardinality(ports))
                    /\ results' = Append(results, fut[p])
               ELSE UNCHANGED <<completed, progress, results>>
            /\ UNCHANGED <<pc, raising>>
    /\ UNCHANGED <<Config, Apart, queue, task, sock, code, bev, ret, fut>>

\* A loop that keeps every outcome, whatever its status.
ConsumeKeepAll(p) ==
    /\ pc = "loop"
    /\ p \in ports \ Yielded
    /\ fut[p].kind # "pending"
    /\ yielded' = Append(yielded, p)
    /\ IF fut[p].kind = "exception"
       THEN /\ raising' = fut[p].status
            /\ pc' = "exit"
            /\ UNCHANGED <<completed, progress, results>>
       ELSE /\ completed' = completed + 1
            /\ progress' = Report(progress, completed + 1, Cardinality(ports))
            /\ results' = Append(results, fut[p])
            /\ UNCHANGED <<pc, raising>>
    /\ UNCHANGED <<Config, Apart, queue, task, sock, code, bev, ret, fut>>

Consume(p) ==
    /\ pc = "loop"
    /\ p \in ports \ Yielded
    /\ fut[p].kind # "pending"
    /\ yielded' = Append(yielded, p)
    /\ IF fut[p].kind = "exception"
       THEN /\ raising' = fut[p].status
            /\ pc' = "exit"
            /\ UNCHANGED <<completed, progress, results>>
       ELSE /\ completed' = completed + 1
            /\ progress' = Report(progress, completed + 1, Cardinality(ports))
            /\ results' = IF fut[p].status = "open"
                          THEN Append(results, fut[p])
                          ELSE results
            /\ UNCHANGED <<pc, raising>>
    /\ UNCHANGED <<Config, Apart, queue, task, sock, code, bev, ret, fut>>

(***************************************************************************)
(* scan_range, line 312: as_completed is exhausted, the loop ends and      *)
(* control reaches the end of the with block.                              *)
(***************************************************************************)
EndLoop ==
    /\ pc = "loop"
    /\ Yielded = ports
    /\ pc' = "exit"
    /\ UNCHANGED <<Config, Apart, raising, queue, task, sock, code, bev, ret, fut,
                   yielded, completed, progress, results>>

(***************************************************************************)
(* scan_range, line 294: leaving the with block calls                      *)
(* executor.shutdown(wait=True), which returns when every submitted work   *)
(* item has run; then a pending exception goes on to the caller.           *)
(***************************************************************************)
ExitWith ==
    /\ pc = "exit"
    /\ \A p \in ports : task[p] = "done"
    /\ pc' = IF raising = "none" THEN "sort" ELSE "raised"
    /\ UNCHANGED <<Config, Apart, raising, queue, task, sock, code, bev, ret, fut,
                   yielded, completed, progress, results>>

(***************************************************************************)
(* scan_range, lines 332-334: sort self._results by port and return it.    *)
(***************************************************************************)
SortAndReturn ==
    /\ pc = "sort"
    /\ results' = SortByPort(results)
    /\ pc' = "returned"
    /\ UNCHANGED <<Config, Apart, raising, queue, task, sock, code, bev, ret, fut,
                   yielded, completed, progress>>

Next ==
    \/ Construct
    \/ EnterScanRange
    \/ \E p \in AllPorts : Submit(p)
    \/ BeginLoop
    \/ \E p \in AllPorts : WorkerTake(p)
    \/ \E p \in AllPorts : ScanPortSocket(p)
    \/ \E p \in AllPorts : ScanPortSetTimeout(p)
    \/ \E p \in AllPorts : ScanPortConnect(p)
    \/ \E p \in AllPorts : ScanPortGrabBanner(p)
    \/ \E p \in AllPorts : ScanPortFinally(p)
    \/ \E p \in AllPorts : Consume(p)
    \/ EndLoop
    \/ ExitWith
    \/ SortAndReturn

Spec == Init /\ [][Next]_vars

(***************************************************************************)
(* A user interrupt (Ctrl+C) while scan_range is in the loop over          *)
(* as_completed, lines 312-328: KeyboardInterrupt is raised in the thread  *)
(* running scan_range and leaves the loop; the with block still runs       *)
(* shutdown(wait=True).  executar_teste_scan catches it at lines 469-471.  *)
(***************************************************************************)
Interrupt ==
    /\ pc = "loop"
    /\ raising' = "KeyboardInterrupt"
    /\ pc' = "exit"
    /\ UNCHANGED <<Config, Apart, queue, task, sock, code, bev, ret, fut, yielded,
                   completed, progress, results>>

NextCancel == Next \/ Interrupt

(***************************************************************************)
(* The loop of scan_range over longer ranges.  The scan starts where every *)
(* probe of the range has already finished when the loop begins (one       *)
(* worker, every port open without banner or every port refused), and      *)
(* as_completed yields the futures by ascending port.                      *)
(***************************************************************************)
LoopPorts == 1..MaxTotal

InitDrained ==
    /\ target = "resolvable"
    /\ ports \in {1..n : n \in 0..MaxTotal}
    /\ threads = 1
    /\ timeout = 1
    /\ pc = "loop"
    /\ raising = "none"
    /\ queue = <<>>
    /\ task = [p \in LoopPorts |-> IF p \in ports THEN "done" ELSE "unsubmitted"]
    /\ sock = [p \in LoopPorts |-> IF p \in ports THEN "closed" ELSE "none"]
    /\ code = [p \in LoopPorts |-> NoCode]
    /\ bev = [p \in LoopPorts |-> NoEvent]
    /\ ret = [p \in LoopPorts |-> Pending]
    /\ \E open \in BOOLEAN :
          fut = [p \in LoopPorts |->
                   IF p \notin ports THEN Pending
                   ELSE IF open THEN Result(p, "open", "", <<>>)
                   ELSE Classify(p, Returned(ECONNREFUSED))]
    /\ yielded = <<>>
    /\ completed = 0
    /\ progress = <<>>
    /\ results = <<>>
    /\ prev = NoList
    /\ ServiceUnused

ConsumeInOrder(p) == p = Len(yielded) + 1 /\ Consume(p)

NextLoop ==
    \/ \E p \in LoopPorts : ConsumeInOrder(p)
    \/ EndLoop
    \/ ExitWith
    \/ SortAndReturn

SpecLoop == InitDrained /\ [][NextLoop]_vars

(***************************************************************************)
(* PortService (src/source/port_service.py).                               *)
(***************************************************************************)
\* The methods the class PortService defines.
Methods ==
    {"__init__", "_initialize_ports_db", "_is_cache_valid", "_load_from_cache",
     "_save_to_cache", "_download_from_iana"}

\* Keys a cache file may hold in its "ports" object.
CacheKeys == {"80", "443", "http"}

\* int(k) of line 100 succeeds on these keys and raises ValueError on others.
Numeric == {"80", "443"}
int(k) == CASE k = "80" -> 80 [] k = "443" -> 443

\* The files that may be at self.cache_file when the service is constructed.
CacheFiles ==
    {NoFile}
    \cup {File(st, a, FALSE, {}) : st \in BOOLEAN, a \in 0..MaxAgeDays}
    \cup {File(st, a, TRUE, ks) :
             st \in BOOLEAN, a \in 0..MaxAgeDays, ks \in SUBSET CacheKeys}

\* _is_cache_valid, lines 62-81.
IsCacheValidResult ==
    IF ~cache.exists THEN FALSE
    ELSE IF cache.stat THEN cache.age < CACHE_EXPIRY_DAYS
    ELSE FALSE

(***************************************************************************)
(* PortService(auto_update), lines 17-31 and 40: the fields are set,       *)
(* ports_db is empty and _initialize_ports_db is about to test the cache.  *)
(* No scan is going on.                                                    *)
(***************************************************************************)
InitService ==
    /\ target = "resolvable"
    /\ ports = {}
    /\ threads = 1
    /\ timeout = 1
    /\ pc = "new"
    /\ raising = "none"
    /\ queue = <<>>
    /\ task = [p \in AllPorts |-> "unsubmitted"]
    /\ sock = [p \in AllPorts |-> "none"]
    /\ code = [p \in AllPorts |-> NoCode]
    /\ bev = [p \in AllPorts |-> NoEvent]
    /\ ret = [p \in AllPorts |-> Pending]
    /\ fut = [p \in AllPorts |-> Pending]
    /\ yielded = <<>>
    /\ completed = 0
    /\ progress = <<>>
    /\ results = <<>>
    /\ prev = NoList
    /\ auto_update \in BOOLEAN
    /\ cache \in CacheFiles
    /\ ports_db = {}
    /\ init_pc = "valid"
    /\ init_exc = "none"

\* The scanner, which no step of PortService touches.
Scanner ==
    <<Config, pc, raising, queue, task, sock, code, bev, ret, fut, yielded,
      completed, progress, results>>

\* _initialize_ports_db, line 43: if self._is_cache_valid().
IsCacheValid ==
    /\ init_pc = "valid"
    /\ init_pc' = IF IsCacheValidResult THEN "load" ELSE "iana"
    /\ UNCHANGED <<Scanner, prev, auto_update, cache, ports_db, init_exc>>

(***************************************************************************)
(* _initialize_ports_db, lines 44-46 with _load_from_cache, lines 84-112.  *)
(* Text that is not a JSON object, or a key int() rejects, raises inside   *)
(* the try before line 100 assigns: ports_db stays as it was and the       *)
(* method returns False.  Otherwise ports_db is replaced and the method    *)
(* returns whether it has an entry.                                        *)
(***************************************************************************)
LoadFromCache ==
    /\ init_pc = "load"
    /\ IF cache.json /\ cache.keys \subseteq Numeric
       THEN /\ ports_db' = {int(k) : k \in cache.keys}
            /\ init_pc' = IF cache.keys # {} THEN "done" ELSE "iana"
       ELSE /\ ports_db' = ports_db
            /\ init_pc' = "iana"
    /\ UNCHANGED <<Scanner, prev, auto_update, cache, init_exc>>

(***************************************************************************)
(* _initialize_ports_db, lines 50-52 with auto_update true: the call       *)
(* self._update_from_iana().  The class defines no such method, so the     *)
(* attribute lookup raises AttributeError, which nothing catches: it       *)
(* leaves _initialize_ports_db and __init__.  Lines 53-55, with the only   *)
(* call of _save_to_cache, are never reached.                              *)
(***************************************************************************)
UpdateFromIana ==
    /\ init_pc = "iana"
    /\ auto_update
    /\ "_update_from_iana" \notin Methods
    /\ init_pc' = "raised"
    /\ init_exc' = "AttributeError"
    /\ UNCHANGED <<Scanner, prev, auto_update, cache, ports_db>>

\* _initialize_ports_db, line 50 with auto_update false: on to line 58.
SkipIana ==
    /\ init_pc = "iana"
    /\ ~auto_update
    /\ init_pc' = "fallback"
    /\ UNCHANGED <<Scanner, prev, auto_update, cache, ports_db, init_exc>>

(***************************************************************************)
(* _initialize_ports_db, line 59: the call self._load_hardcoded_db().  The *)
(* class defines no such method either: AttributeError leaves __init__.    *)
(***************************************************************************)
LoadHardcodedDb ==
    /\ init_pc = "fallback"
    /\ "_load_hardcoded_db" \notin Methods
    /\ init_pc' = "raised"
    /\ init_exc' = "AttributeError"
    /\ UNCHANGED <<Scanner, prev, auto_update, cache, ports_db>>

NextService ==
    \/ IsCacheValid
    \/ LoadFromCache
    \/ UpdateFromIana
    \/ SkipIana
    \/ LoadHardcodedDb

SpecService == InitService /\ [][NextService]_vars

\* scan_range with a user who may interrupt it.
SpecCancel == Init /\ [][NextCancel]_vars

(***************************************************************************)
(* scan_range called again on the same scanner after it has returned,      *)
(* lines 251-280.  The caller keeps the list of the first call.  The call  *)
(* gets a new executor, new futures and new locals; self._results is what  *)
(* the first call left until line 280 (EnterScanRange) runs.  The lines    *)
(* printed by the first call stay printed.                                 *)
(***************************************************************************)
Rescan ==
    /\ pc = "returned"
    /\ ~prev.held
    /\ prev' = Held(results)
    /\ pc' = "constructed"
    /\ queue' = <<>>
    /\ task' = [p \in AllPorts |-> "unsubmitted"]
    /\ sock' = [p \in AllPorts |-> "none"]
    /\ code' = [p \in AllPorts |-> NoCode]
    /\ bev' = [p \in AllPorts |-> NoEvent]
    /\ ret' = [p \in AllPorts |-> Pending]
    /\ fut' = [p \in AllPorts |-> Pending]
    /\ yielded' = <<>>
    /\ completed' = 0
    /\ UNCHANGED <<Config, Service, raising, progress, results>>

\* The scans that can return a non-empty list: a target that resolves and a
\* timeout settimeout accepts.  One worker, so that the two calls together
\* stay small; the loop still meets the futures in more than one order.
InitTwice ==
    /\ Init
    /\ target = "resolvable"
    /\ threads = 1
    /\ timeout = 1

NextTwice == Next \/ Rescan

SpecTwice == InitTwice /\ [][NextTwice]_vars

(***************************************************************************)
(* Scheduling.  scan_range runs on the calling thread; each work item runs *)
(* on a worker thread of the pool from the moment a worker takes it.  The  *)
(* operating system schedules every runnable thread again and again, and   *)
(* settimeout (line 110) bounds connect_ex, send and recv, so a step that  *)
(* stays possible is eventually taken.                                     *)
(***************************************************************************)
MainThread ==
    \/ Construct
    \/ EnterScanRange
    \/ \E p \in AllPorts : Submit(p)
    \/ BeginLoop
    \/ \E p \in AllPorts : Consume(p)
    \/ EndLoop
    \/ ExitWith
    \/ SortAndReturn

WorkerThread(p) ==
    \/ WorkerTake(p)
    \/ ScanPortSocket(p)
    \/ ScanPortSetTimeout(p)
    \/ ScanPortConnect(p)
    \/ ScanPortGrabBanner(p)
    \/ ScanPortFinally(p)

Fairness ==
    /\ WF_vars(MainThread)
    /\ \A p \in AllPorts : WF_vars(WorkerThread(p))

SpecFair == Init /\ [][Next]_vars /\ Fairness

(***************************************************************************)
(* Properties.                                                             *)
(***************************************************************************)
Finished == pc \in {"returned", "raised"}

\* Number of times port p occurs in the sequence s.
Count(s, p) == Cardinality({i \in 1..Len(s) : s[i] = p})

\* C1: when scan_range ends, every submitted port has had exactly one outcome
\* consumed by the loop, and the number of outcomes consumed (completed)
\* equals the number of ports submitted.
C1_OneOutcomePerPort ==
    Finished =>
        /\ \A p \in Submitted : Count(yielded, p) = 1 /\ fut[p].kind = "result"
        /\ completed = Cardinality(Submitted)

\* C2: the list scan_range returns holds only outcomes with status open and is
\* strictly ascending by port number (so no port occurs twice).
C2_OpenAndAscending ==
    pc = "returned" =>
        /\ \A i \in 1..Len(results) : results[i].status = "open"
        /\ \A i \in 1..Len(results), j \in 1..Len(results) :
              i < j => results[i].port < results[j].port

\* C2 witness: a scan has returned a non-empty list from which the outcome of
\* some port was left out.
C2_Witness ==
    /\ pc = "returned"
    /\ results # <<>>
    /\ Len(results) < Cardinality(ports)

\* The open outcomes of ports 1..n held by the futures, by ascending port.
RECURSIVE OpenUpTo(_)
OpenUpTo(n) ==
    IF n = 0 THEN <<>>
    ELSE IF n \in ports /\ fut[n].kind = "result" /\ fut[n].status = "open"
         THEN Append(OpenUpTo(n - 1), fut[n])
         ELSE OpenUpTo(n - 1)

\* C3: the returned list is determined by the per-port outcomes alone: it is
\* the open outcomes by ascending port, whatever the order in which the
\* futures completed and were consumed.
C3_OrderIndependent ==
    pc = "returned" => results = OpenUpTo(MaxPorts)

\* C3 witness: a scan has returned two open ports whose futures were consumed
\* in descending port order.
C3_Witness ==
    /\ pc = "returned"
    /\ Len(results) >= 2
    /\ Len(yielded) >= 2
    /\ yielded[1] > yielded[2]

\* The probes in flight that hold an open socket.
HoldingSocket == {p \in Running : sock[p] = "open"}

C5_SocketClosedOnExit ==
    \A p \in AllPorts : task[p] = "done" => sock[p] # "open"

\* C6: when scan_range returns, no probe is pending or running and no probe
\* socket is open.
C6_ReturnAfterAllProbes ==
    pc = "returned" =>
        /\ queue = <<>>
        /\ \A p \in ports : task[p] = "done" /\ sock[p] # "open"

\* C6 witness: scan_range has returned from a scan of a non-empty range in
\* which every probe opened and closed its socket.
C6_Witness ==
    /\ pc = "returned"
    /\ ports # {}
    /\ \A p \in ports : sock[p] = "closed"

\* C7: a failure local to one probe (with a valid configuration: threads and
\* timeout positive) never leaves scan_range as an exception, and every port
\* still has an outcome.
C7_FailureContained ==
    (threads > 0 /\ timeout > 0) =>
        /\ pc # "raised"
        /\ \A p \in ports : fut[p].kind # "exception"

\* C8: a connect that expires, raised as a timeout or returned as a timeout
\* code by connect_ex, is classified filtered.
C8_ExpiryIsFiltered ==
    \A p \in AllPorts :
        (task[p] = "fin" /\ code[p] \in {Raised("timeout"), Returned(ETIMEDOUT)})
            => ret[p].status = "filtered"

\* C9: a refused connect is classified closed with an empty banner, and closed
\* is returned only for a refusal.
C9_ClosedIffRefused ==
    \A p \in AllPorts :
        task[p] = "fin" =>
            /\ code[p] = Returned(ECONNREFUSED)
                  => (ret[p].status = "closed" /\ ret[p].banner = <<>>)
            /\ ret[p].status = "closed" => code[p] = Returned(ECONNREFUSED)

\* C10: a connect denied for lack of permission, raised as PermissionError or
\* returned as an access-denied code by connect_ex, yields status error with
\* the permission-denied detail.
C10_PermissionIsError ==
    \A p \in AllPorts :
        (task[p] = "fin"
            /\ code[p] \in {Raised("PermissionError"), Returned(WSAEACCES)})
            => (ret[p].status = "error" /\ ret[p].service = "Permission Denied")

\* C11: a connect failure other than refusal, timeout and permission denial
\* (no route to host returned by connect_ex, an unexpected OSError raised)
\* yields status error with the cause as detail.
C11_OtherFailureIsError ==
    \A p \in AllPorts :
        (task[p] = "fin"
            /\ code[p] \in {Returned(EHOSTUNREACH), Raised("OSError")})
            => (ret[p].status = "error" /\ ret[p].banner # <<>>)

\* C12: banner capture runs only after connect_ex returned 0, and whatever
\* happens in it (send fails, recv times out, bytes arrive, valid or not) the
\* outcome stays open; after a send failure or a recv timeout the banner is
\* empty.
C12_BannerNeverEscalates ==
    \A p \in AllPorts :
        /\ (task[p] = "conn" \/ bev[p] # NoEvent) => code[p] = Returned(0)
        /\ (task[p] = "fin" /\ bev[p] # NoEvent) => ret[p].status = "open"
        /\ (task[p] = "fin" /\ bev[p].ev \in {"sendfail", "timeout"})
              => ret[p].banner = <<>>

\* C12 witness: a probe whose recv timed out during banner capture is about to
\* return an open outcome.
C12_Witness ==
    \E p \in AllPorts :
        task[p] = "fin" /\ bev[p].ev = "timeout" /\ ret[p].status = "open"

\* C13: once scan_range has been interrupted, no probe that had not started
\* (its work item still in the queue) starts.
C13_NoProbeStartsAfterCancel ==
    [][raising = "KeyboardInterrupt"
         => \A p \in AllPorts : task[p] = "queued" => task'[p] = "queued"]_vars

\* C14: when an interrupted scan_range has handed control back to its caller,
\* no socket acquired by a probe is open.
C14_SocketsClosedAfterCancel ==
    (pc = "raised" /\ raising = "KeyboardInterrupt")
        => \A p \in AllPorts : sock[p] # "open"

\* What a scan of an empty range must look like at every moment: nothing is
\* submitted, no socket exists, no progress line is printed, nothing is
\* raised, the scan can go on until it has returned, and it returns the empty
\* list.
EmptyScan ==
    /\ queue = <<>>
    /\ \A p \in AllPorts : task[p] = "unsubmitted" /\ sock[p] = "none"
    /\ progress = <<>>
    /\ completed = 0
    /\ pc # "raised" /\ raising = "none"
    /\ pc # "returned" => ENABLED Next
    /\ pc = "returned" => results = <<>>

\* C15 as stated: scan_range on an empty port range (of a scanner that was
\* constructed) returns an empty list without submitting a probe, opening a
\* socket or raising.
C15_EmptyRangeAsStated == (ports = {} /\ pc # "unresolved") => EmptyScan

\* C15 as amended: the same for a scanner whose threads is at least 1.
C15_EmptyRange ==
    (ports = {} /\ pc # "unresolved" /\ threads >= 1) => EmptyScan

\* C15 witness: a scan of an empty range with one worker or more has returned.
C15_Witness == ports = {} /\ threads >= 1 /\ pc = "returned"

\* No probe has been submitted or run and nothing has been produced.
NothingRan ==
    /\ queue = <<>>
    /\ \A p \in AllPorts :
          task[p] = "unsubmitted" /\ sock[p] = "none" /\ fut[p] = Pending
    /\ yielded = <<>> /\ completed = 0 /\ progress = <<>> /\ results = <<>>

\* C16: with threads <= 0 scan_range can only raise ValueError, and no probe
\* is ever submitted, no socket opened and no outcome produced.
C16_BadThreadsIsConfigError ==
    threads <= 0 =>
        /\ NothingRan
        /\ pc \in {"new", "unresolved", "constructed", "raised"}
        /\ pc = "raised" => raising = "ValueError"

\* C16 witness: scan_range was called for a non-empty range with threads <= 0
\* and has raised.
C16_Witness == threads <= 0 /\ ports # {} /\ pc = "raised"

\* C17: when the host does not resolve, the constructor raises ValueError, no
\* scanner exists on which scan_range could run (it is never entered) and
\* no probe runs and no outcome is produced.
C17_UnresolvedHostIsConfigError ==
    target = "unresolvable" =>
        /\ pc \in {"new", "unresolved"}
        /\ pc = "unresolved" => raising = "ValueError"
        /\ NothingRan
        /\ ~ ENABLED EnterScanRange

\* C17 witness: the constructor has failed to resolve the host of a scanner
\* given a non-empty range and a positive number of threads.
C17_Witness == pc = "unresolved" /\ ports # {} /\ threads >= 1

\* C18: the completions at which a progress line was printed are exactly the
\* multiples of 20 and the final one (completed = total), each once and in
\* order; the percentages never decrease and, when the scan of a non-empty
\* range has returned, the last one is 100.0.
C18_ProgressCadence ==
    LET t == Cardinality(ports)
        n == Len(progress)
    IN  /\ \A i \in 1..n :
              /\ progress[i].at \in 1..completed
              /\ progress[i].at % 20 = 0 \/ progress[i].at = t
        /\ \A k \in 1..completed :
              (k % 20 = 0 \/ k = t) => \E i \in 1..n : progress[i].at = k
        /\ \A i \in 1..n, j \in 1..n :
              i < j => /\ progress[i].at < progress[j].at
                       /\ progress[i].percent <= progress[j].percent
        /\ (pc = "returned" /\ t > 0) => (n > 0 /\ progress[n].percent = 1000)

\* C18 witness: a scan of 40 ports has returned after printing two progress
\* lines, at the 20th completion and at the 40th, which is also the final one.
C18_Witness ==
    /\ pc = "returned"
    /\ Cardinality(ports) = 40
    /\ Len(progress) = 2
    /\ progress[1].at = 20 /\ progress[1].percent = 500
    /\ progress[2].at = 40

\* The outcomes (not exceptions) among the futures yielded so far.
Received == {i \in 1..Len(yielded) : fut[yielded[i]].kind = "result"}

\* C19: the counter equals the number of outcomes received, whatever their
\* status; it never exceeds the total and is at least the number of retained
\* results; when scan_range returns it equals the total, and the returned list
\* is no longer than the total.
C19_CompletedCounter ==
    LET t == Cardinality(ports)
    IN  /\ completed = Cardinality(Received)
        /\ completed <= t
        /\ Len(results) <= completed
        /\ pc = "returned" => (completed = t /\ Len(results) <= t)

\* C19 witness: a scan of two ports has returned one open port: the outcome
\* that was not retained was counted.
C19_Witness ==
    /\ pc = "returned"
    /\ completed = 2
    /\ Len(results) = 1

\* The open outcomes among the first n yielded futures, in the order yielded.
RECURSIVE Retained(_)
Retained(n) ==
    IF n = 0 THEN <<>>
    ELSE IF fut[yielded[n]].kind = "result" /\ fut[yielded[n]].status = "open"
         THEN Append(Retained(n - 1), fut[yielded[n]])
         ELSE Retained(n - 1)

\* C20: the session state (completed, self._results) changes only in steps of
\* the thread running scan_range, never in a step of a probe on a worker
\* thread, one increment at a time; and no update is lost: until the sort the
\* retained results are exactly the open outcomes yielded, in that order.
C20_SessionSerialized ==
    /\ [](pc \in {"loop", "exit", "sort", "raised"}
            => results = Retained(Len(yielded)))
    /\ [][(completed' # completed \/ results' # results)
            => /\ pc \in {"constructed", "submit", "loop", "sort"}
               /\ pc' # pc \/ yielded' # yielded
               /\ UNCHANGED <<queue, task, sock, code, bev, ret, fut>>
               /\ completed' \in {0, completed, completed + 1}]_vars

\* C20 witness: the loop has counted and retained an outcome while another
\* probe is running on a worker thread.
C20_Witness ==
    /\ pc = "loop"
    /\ completed >= 1
    /\ results # <<>>
    /\ Running # {}

\* The ports of a list of results, in the order of the list.
PortList(l) == [i \in 1..Len(l) |-> l[i].port]

\* The ports whose probe of the current call reported open.
OpenNow ==
    {p \in ports : fut[p].kind = "result" /\ fut[p].status = "open"}

\* C21: when a second scan_range call on the same scanner has returned and
\* the ports found open in it are the ports the first call returned, the
\* second list names the same ports as the first, and when the open outcomes
\* are the same records (same banners) the second list equals the first:
\* nothing of the first call is carried over, duplicated or accumulated.
C21_SecondRunSameList ==
    (prev.held /\ pc = "returned") =>
        /\ OpenNow = {prev.list[i].port : i \in 1..Len(prev.list)}
              => PortList(results) = PortList(prev.list)
        /\ OpenUpTo(MaxPorts) = prev.list => results = prev.list

\* C21 witness: the second call has returned the same non-empty list as the
\* first, from a range that also has a port that is not open.
C21_Witness ==
    /\ prev.held
    /\ pc = "returned"
    /\ prev.list # <<>>
    /\ results = prev.list
    /\ OpenNow # ports

\* Every probe of the range has finished and its future is resolved.
AllProbesDone ==
    \A p \in ports : task[p] = "done" /\ fut[p].kind # "pending"

CacheUsable ==
    /\ IsCacheValidResult
    /\ cache.json
    /\ cache.keys \subseteq Numeric
    /\ cache.keys # {}

\* C23: PortService initialisation never ends in an exception, and when it
\* is over the service holds a database with at least one entry: the entries
\* of the cache when the cache is valid and loads at least one entry,
\* otherwise those of the IANA download (tried only with auto_update) or of
\* the hardcoded fallback.
C23_SourcesInOrder ==
    /\ init_exc = "none"
    /\ init_pc # "raised"
    /\ init_pc = "done" =>
          /\ ports_db # {}
          /\ CacheUsable => ports_db = {int(k) : k \in cache.keys}

====
